---- MODULE Spec2Model ----
(***************************************************************************)
(* Model of notebooks/data-cleaning.ipynb: the text-cleaning pipeline      *)
(* (data_cleaning and the string functions it chains) and the batch cells  *)
(* that apply it to the data frame, drop the empty rows and save the       *)
(* feature / target arrays.                                                *)
(*                                                                         *)
(* A Python str is modelled as a sequence of one-character strings, so     *)
(* "not ok" is <<"n","o","t"," ","o","k">>.  Only ASCII is modelled.       *)
(***************************************************************************)
EXTENDS Integers, Sequences, FiniteSets, TLC

\* ------------------------------------------------------------------------
\* Character classes used by the regular expressions and by str methods
\* ------------------------------------------------------------------------

LowerSeq ==
  << "a","b","c","d","e","f","g","h","i","j","k","l","m",
     "n","o","p","q","r","s","t","u","v","w","x","y","z" >>

UpperSeq ==
  << "A","B","C","D","E","F","G","H","I","J","K","L","M",
     "N","O","P","Q","R","S","T","U","V","W","X","Y","Z" >>

LowerLetters == { LowerSeq[i] : i \in DOMAIN LowerSeq }

UpperLetters == { UpperSeq[i] : i \in DOMAIN UpperSeq }

Digits == { "0","1","2","3","4","5","6","7","8","9" }

\* [a-z]
IsLower(c) == c \in LowerLetters

\* mutant of IsAlpha: the class written [a-zA-Z0-9], digits kept
IsAlphaOrDigit(c) ==
  c \in LowerLetters \/ c \in UpperLetters \/ c \in Digits

\* [a-zA-Z]
IsAlpha(c) == c \in LowerLetters \/ c \in UpperLetters

\* \s
IsSpace(c) == c \in { " ", "\t", "\n", "\r" }

\* \w
IsWordChar(c) == IsAlpha(c) \/ c \in Digits \/ c = "_"

\* The value of a text cell that is not a str (Python None).
None == << "<None>" >>

IsStr(t) == t # None

\* ------------------------------------------------------------------------
\* Helpers: runs of a character class, prefix test, split and join
\* ------------------------------------------------------------------------

\* s[i..] starts with w
StartsWith(s, i, w) ==
  /\ i >= 1
  /\ i + Len(w) - 1 <= Len(s)
  /\ SubSeq(s, i, i + Len(w) - 1) = w

RECURSIVE NonSpaceEnd(_, _)
\* last index of the greedy \S* run that starts at i (i-1 when it is empty)
NonSpaceEnd(s, i) ==
  IF i > Len(s) \/ IsSpace(s[i]) THEN i - 1 ELSE NonSpaceEnd(s, i + 1)

RECURSIVE SpaceEnd(_, _)
\* last index of the greedy \s* run that starts at i (i-1 when it is empty)
SpaceEnd(s, i) ==
  IF i > Len(s) \/ ~IsSpace(s[i]) THEN i - 1 ELSE SpaceEnd(s, i + 1)

RECURSIVE LowerEnd(_, _)
\* last index of the greedy [a-z]* run that starts at i
LowerEnd(s, i) ==
  IF i > Len(s) \/ ~IsLower(s[i]) THEN i - 1 ELSE LowerEnd(s, i + 1)

RECURSIVE WordEnd(_, _)
\* last index of the greedy \w* run that starts at i
WordEnd(s, i) ==
  IF i > Len(s) \/ ~IsWordChar(s[i]) THEN i - 1 ELSE WordEnd(s, i + 1)

RECURSIVE SameEnd(_, _, _)
\* last index of the greedy run of the character c that starts at i
SameEnd(s, i, c) ==
  IF i > Len(s) \/ s[i] # c THEN i - 1 ELSE SameEnd(s, i + 1, c)

\* ------------------------------------------------------------------------
\* re.sub: the leftmost, non-overlapping matches of a pattern, scanned left
\* to right.  MatchEnd(pat, s, i) is the last index of the pattern's match
\* that starts at i (0 when it matches nothing there), Replacement what is
\* put in its place and Unmatched what a character outside every match
\* leaves.  ScanRange scans the start positions lo..hi, by halves, and gives
\* the output with the position the scan has reached.
\* ------------------------------------------------------------------------

RECURSIVE MatchEnd(_, _, _)
RECURSIVE Replacement(_, _, _, _)
RECURSIVE ScanRange(_, _, _, _)

ScanRange(pat, s, lo, hi) ==
  IF lo > hi THEN [ out |-> << >>, next |-> lo ]
  ELSE IF lo = hi
  THEN LET e == MatchEnd(pat, s, lo)
       IN  IF e > 0
           THEN [ out |-> Replacement(pat, s, lo, e), next |-> e + 1 ]
           ELSE [ out |-> IF pat = "split" THEN << >> ELSE << s[lo] >>,
                  next |-> lo + 1 ]
  ELSE LET mid   == (lo + hi) \div 2
           left  == ScanRange(pat, s, lo, mid)
           right == ScanRange(pat, s, left.next, hi)
       IN  [ out |-> left.out \o right.out, next |-> right.next ]

ReSub(pat, s) == ScanRange(pat, s, 1, Len(s)).out

\* str.split(): the whitespace-delimited words, none of them empty
Split(s) == ReSub("split", s)

RECURSIVE JoinRange(_, _, _)
JoinRange(words, lo, hi) ==
  IF lo > hi THEN << >>
  ELSE IF lo = hi THEN words[lo]
  ELSE LET mid == (lo + hi) \div 2
       IN  JoinRange(words, lo, mid) \o << " " >>
             \o JoinRange(words, mid + 1, hi)

\* ' '.join(words)
Join(words) == JoinRange(words, 1, Len(words))

\* ------------------------------------------------------------------------
\* str.lower and str.strip
\* ------------------------------------------------------------------------

ToLower(c) ==
  IF c \in UpperLetters
  THEN LowerSeq[CHOOSE i \in DOMAIN UpperSeq : UpperSeq[i] = c]
  ELSE c

\* mutant of lower: the text is not lowercased
LowerSkipped(text) == text

lower(text) == [ i \in 1..Len(text) |-> ToLower(text[i]) ]

RECURSIVE LastNonSpace(_, _)
LastNonSpace(s, i) ==
  IF i < 1 \/ ~IsSpace(s[i]) THEN i ELSE LastNonSpace(s, i - 1)

strip(text) ==
  LET a == SpaceEnd(text, 1) + 1
      b == LastNonSpace(text, Len(text))
  IN  IF a > b THEN << >> ELSE SubSeq(text, a, b)

\* ------------------------------------------------------------------------
\* expand_contractions: contractions.fix, an external library.  The table
\* holds the expansions the notebook's own outputs show (all lowercase);
\* a key is replaced where it stands as a whole word.
\* ------------------------------------------------------------------------

ContractionTable ==
  << << <<"d","o","n","'","t">>,     <<"d","o"," ","n","o","t">> >>,
     << <<"d","o","n","t">>,         <<"d","o"," ","n","o","t">> >>,
     << <<"c","a","n","'","t">>,     <<"c","a","n","n","o","t">> >>,
     << <<"i","t","'","s">>,         <<"i","t"," ","i","s">> >>,
     << <<"h","e","'","s">>,         <<"h","e"," ","i","s">> >>,
     << <<"h","e","'","l","l">>,     <<"h","e"," ","w","i","l","l">> >> >>

\* the table row whose key stands as a whole word at i, 0 when none does
ContractionAt(s, i) ==
  LET hits == { r \in DOMAIN ContractionTable :
                  /\ StartsWith(s, i, ContractionTable[r][1])
                  /\ (i = 1 \/ ~IsWordChar(s[i - 1]))
                  /\ LET n == i + Len(ContractionTable[r][1])
                     IN  n > Len(s) \/ ~(IsWordChar(s[n]) \/ s[n] = "'") }
  IN  IF hits = {} THEN 0 ELSE CHOOSE r \in hits : \A q \in hits : r <= q

ContractionMatchEnd(s, i) ==
  LET r == ContractionAt(s, i)
  IN  IF r > 0 THEN i + Len(ContractionTable[r][1]) - 1 ELSE 0

expand_contractions(text) == ReSub("contraction", text)

\* ------------------------------------------------------------------------
\* remove_noise_texts: four re.sub passes, in the order of the code
\* ------------------------------------------------------------------------

\* end of the match of (.)\1\1+ that starts at i, 0 when there is none: a
\* run of three or more of one character (not newline: '.' does not match it)
RepeatingMatchEnd(s, i) ==
  LET e == SameEnd(s, i, s[i])
  IN  IF e >= i + 2 /\ s[i] # "\n" THEN e ELSE 0

\* end of the match of \S+@\S+ that starts at i, 0 when there is none
EmailMatchEnd(s, i) ==
  LET e == NonSpaceEnd(s, i)
  IN  IF \E k \in (i + 1)..(e - 1) : s[k] = "@" THEN e ELSE 0

\* mutant of MentionMatchEnd: the pattern written @\S+, hashtags left
MentionOnlyMatchEnd(s, i) ==
  IF s[i] = "@" /\ i + 1 <= Len(s) /\ ~IsSpace(s[i + 1])
  THEN NonSpaceEnd(s, i + 1)
  ELSE 0

\* end of the match of (@|#)\S+ that starts at i, 0 when there is none
MentionMatchEnd(s, i) ==
  IF s[i] \in { "@", "#" } /\ i + 1 <= Len(s) /\ ~IsSpace(s[i + 1])
  THEN NonSpaceEnd(s, i + 1)
  ELSE 0

\* end of the match of ((www\.\S+)|(https?://\S+))|(\S+\.com) that starts
\* at i, the alternatives tried in this order; 0 when none matches
LinkMatchEnd(s, i) ==
  LET www   == << "w","w","w","." >>
      http  == << "h","t","t","p",":","/","/" >>
      https == << "h","t","t","p","s",":","/","/" >>
      com   == << ".","c","o","m" >>
      after(w) == i + Len(w)
      more(w)  == after(w) <= Len(s) /\ ~IsSpace(s[after(w)])
      e     == NonSpaceEnd(s, i)
      dots  == { k \in (i + 1)..(e - 3) : StartsWith(s, k, com) }
  IN  IF StartsWith(s, i, www) /\ more(www) THEN NonSpaceEnd(s, after(www))
      ELSE IF StartsWith(s, i, https) /\ more(https)
           THEN NonSpaceEnd(s, after(https))
      ELSE IF StartsWith(s, i, http) /\ more(http)
           THEN NonSpaceEnd(s, after(http))
      ELSE IF dots # {}
           THEN (CHOOSE k \in dots : \A j \in dots : j <= k) + 3
      ELSE 0

remove_noise_texts(text) ==
  LET t1 == ReSub("repeating_suff_re", text)
      t2 == ReSub("email_re", t1)
      t3 == ReSub("mention_hashtag_re", t2)
  IN  ReSub("link_re", t3)

\* ------------------------------------------------------------------------
\* remove_stopwords and the shared list stop_words
\* ------------------------------------------------------------------------

\* stopwords.words("english") as loaded once into the global stop_words: the
\* members the notebook's outputs show removed, and other common ones
StopWordsLoaded ==
  {
    <<"i">>, <<"m","e">>, <<"m","y">>, <<"w","e">>, <<"o","u","r">>,
    <<"y","o","u">>, <<"h","e">>, <<"h","i","m">>, <<"h","i","s">>,
    <<"s","h","e">>, <<"h","e","r">>, <<"i","t">>, <<"i","t","s">>,
    <<"t","h","e","y">>, <<"t","h","e","m">>, <<"w","h","a","t">>,
    <<"w","h","i","c","h">>, <<"w","h","o">>, <<"t","h","i","s">>,
    <<"t","h","a","t">>, <<"a","m">>, <<"i","s">>, <<"a","r","e">>,
    <<"w","a","s">>, <<"w","e","r","e">>, <<"b","e">>, <<"b","e","e","n">>,
    <<"h","a","v","e">>, <<"h","a","s">>, <<"h","a","d">>, <<"d","o">>,
    <<"d","o","e","s">>, <<"d","i","d">>, <<"a">>, <<"a","n">>,
    <<"t","h","e">>, <<"a","n","d">>, <<"b","u","t">>, <<"i","f">>,
    <<"o","r">>, <<"a","s">>, <<"o","f">>, <<"a","t">>, <<"b","y">>,
    <<"f","o","r">>, <<"w","i","t","h">>, <<"t","o">>, <<"f","r","o","m">>,
    <<"i","n">>, <<"o","n">>, <<"n","o">>, <<"n","o","r">>,
    <<"n","o","t">>, <<"s","o">>, <<"t","h","a","n">>, <<"t","o","o">>,
    <<"v","e","r","y">>, <<"c","a","n">>, <<"w","i","l","l">>,
    <<"j","u","s","t">>
  }

\* ['not', 'no', 'nor']
NegWords == { <<"n","o","t">>, <<"n","o">>, <<"n","o","r">> }

\* mutant of stop_word_list: the condition on neg_keep inverted
StopWordListInverted(neg_keep, sw) ==
  IF neg_keep THEN sw ELSE { w \in sw : w \notin NegWords }

\* the list the filter uses: a new list without the negation words when
\* neg_keep, the shared list itself otherwise
stop_word_list(neg_keep, sw) ==
  IF neg_keep THEN { w \in sw : w \notin NegWords } ELSE sw

\* mutant of StopWordsAfter: the negation words removed from the shared list
\* while it is iterated, which skips the word after each one removed
StopWordsRemovedInPlace(neg_keep, sw) ==
  IF ~neg_keep THEN sw
  ELSE IF sw \cap { <<"n","o">>, <<"n","o","t">> } # { }
       THEN sw \ { <<"n","o">>, <<"n","o","t">> }
       ELSE sw \ { <<"n","o","r">> }

\* mutant of StopWordsAfter: a neg_keep call takes the negation words out of
\* the shared list itself
StopWordsNegRemoved(neg_keep, sw) ==
  IF neg_keep THEN sw \ NegWords ELSE sw

\* the shared list after a call of remove_stopwords: the comprehension
\* builds a new list and nothing is assigned to or removed from stop_words
StopWordsAfter(neg_keep, sw) == sw

\* mutant of remove_stopwords: the words compared in lowercase
RemoveStopwordsIgnoreCase(text, neg_keep, sw) ==
  LET list == stop_word_list(neg_keep, sw)
      Keep(word) == lower(word) \notin list
  IN  Join(SelectSeq(Split(text), Keep))

remove_stopwords(text, neg_keep, sw) ==
  LET list == stop_word_list(neg_keep, sw)
      Keep(word) == word \notin list
  IN  Join(SelectSeq(Split(text), Keep))

\* ------------------------------------------------------------------------
\* negation_handle
\* ------------------------------------------------------------------------

\* (?:not|no|never|cannot), in the order the alternatives are tried
Cues ==
  << <<"n","o","t">>, <<"n","o">>, <<"n","e","v","e","r">>,
     <<"c","a","n","n","o","t">> >>

NEG == << "N","E","G" >>

\* \b at position i: exactly one of s[i-1], s[i] is a word character
WordBoundary(s, i) ==
  (i > 1 /\ i - 1 <= Len(s) /\ IsWordChar(s[i - 1]))
    # (i >= 1 /\ i <= Len(s) /\ IsWordChar(s[i]))

\* end of the match of  cue\b\s+[a-z]+  at i for one cue, 0 when none
CueMatchEnd(s, i, cue) ==
  LET j == i + Len(cue)
      w == SpaceEnd(s, j)
  IN  IF /\ StartsWith(s, i, cue)
         /\ WordBoundary(s, j)
         /\ w >= j
         /\ w + 1 <= Len(s)
         /\ IsLower(s[w + 1])
      THEN LowerEnd(s, w + 1)
      ELSE 0

\* end of the match of \b(?:not|no|never|cannot)\b\s+[a-z]+ at i
NegMatchEnd(s, i) ==
  LET hits == { c \in DOMAIN Cues : CueMatchEnd(s, i, Cues[c]) > 0 }
  IN  IF ~WordBoundary(s, i) \/ hits = {} THEN 0
      ELSE CueMatchEnd(s, i, Cues[CHOOSE c \in hits : \A d \in hits : c <= d])

\* end of the match of (\s+)(\w+) that starts at i, 0 when there is none
TagMatchEnd(m, i) ==
  LET w == SpaceEnd(m, i)
  IN  IF w >= i /\ w + 1 <= Len(m) /\ IsWordChar(m[w + 1])
      THEN WordEnd(m, w + 1)
      ELSE 0

\* mutant of TagReplacement: r'NEG\1\2', the marker put before the whitespace
TagReplacementBeforeSpace(m, i, e) == NEG \o SubSeq(m, i, e)

\* r'\1NEG\2' for the match m[i..e]
TagReplacement(m, i, e) ==
  LET w == SpaceEnd(m, i)
  IN  SubSeq(m, i, w) \o NEG \o SubSeq(m, w + 1, e)

\* the lambda: re.sub(r'(\s+)(\w+)', r'\1NEG\2', match.group(0))
TagMatch(m) == ReSub("tag", m)

\* a lowercase word starts at q, after whitespace that follows a whole cue
AfterCue(text, q) ==
  /\ q > 1 /\ IsLower(text[q]) /\ IsSpace(text[q - 1])
  /\ \E c \in DOMAIN Cues :
       LET e == LastNonSpace(text, q - 1)
           b == e - Len(Cues[c]) + 1
       IN  /\ b >= 1
           /\ SubSeq(text, b, e) = Cues[c]
           /\ WordBoundary(text, b)

RECURSIVE TagEveryCueFrom(_, _)
TagEveryCueFrom(text, q) ==
  IF q > Len(text) THEN << >>
  ELSE (IF AfterCue(text, q) THEN NEG ELSE << >>)
         \o << text[q] >> \o TagEveryCueFrom(text, q + 1)

\* mutant of negation_handle: overlapping matches, the word after every cue
\* tagged, also after a cue an earlier match tagged
NegationHandleEveryCue(text) == TagEveryCueFrom(text, 1)

negation_handle(text) == ReSub("negation", text)

\* ------------------------------------------------------------------------
\* remove_non_alpha, remove_spaces, remove_short_words, lemmatize
\* ------------------------------------------------------------------------

\* mutant of NonAlphaRepl: r'', the character deleted
NonAlphaReplEmpty == << >>

\* r' ', what re.sub puts in place of a character matching [^a-zA-Z]
NonAlphaRepl == << " " >>

remove_non_alpha(text) == ReSub("non_alpha_digit_re", text)

\* end of the match of \s\s+ that starts at i, 0 when there is none
SpacesMatchEnd(s, i) ==
  LET w == SpaceEnd(s, i)
  IN  IF w >= i + 1 THEN w ELSE 0

remove_spaces(text) == ReSub("multi_spaces_re", text)

\* mutant of remove_short_words: len(word) > 0, one-letter words kept
RemoveShortWordsKeepsOne(text) ==
  LET Long(word) == Len(word) > 0
  IN  Join(SelectSeq(Split(text), Long))

remove_short_words(text) ==
  LET Long(word) == Len(word) > 1
  IN  Join(SelectSeq(Split(text), Long))

\* lemmatize: pos_tag and WordNetLemmatizer are external.  The table holds the
\* base forms the notebook's output shows, and one word of those for which
\* WordNet gives a one-letter base form (the plural s taken off, the
\* shortest form found returned); any other word passes unchanged.  The
\* code puts no condition on what lemmatizer.lemmatize returns.
LemmaTable ==
  << << <<"a","t","e">>, <<"e","a","t">> >>,
     << <<"h","a","m","b","u","r","g","e","r","s">>,
        <<"h","a","m","b","u","r","g","e","r">> >>,
     << <<"o","s">>, <<"o">> >> >>

Lemma(word) ==
  IF \E r \in DOMAIN LemmaTable : LemmaTable[r][1] = word
  THEN LemmaTable[CHOOSE r \in DOMAIN LemmaTable : LemmaTable[r][1] = word][2]
  ELSE word

lemmatize(text) ==
  LET words == Split(text)
  IN  Join([ i \in 1..Len(words) |-> Lemma(words[i]) ])

\* ------------------------------------------------------------------------
\* The patterns of re.sub, by the name the code gives them
\* ------------------------------------------------------------------------

MatchEnd(pat, s, i) ==
  CASE pat = "split"              ->
         IF IsSpace(s[i]) THEN 0 ELSE NonSpaceEnd(s, i)
    [] pat = "contraction"        -> ContractionMatchEnd(s, i)
    [] pat = "repeating_suff_re"  -> RepeatingMatchEnd(s, i)
    [] pat = "email_re"           -> EmailMatchEnd(s, i)
    [] pat = "mention_hashtag_re" -> MentionMatchEnd(s, i)
    [] pat = "link_re"            -> LinkMatchEnd(s, i)
    [] pat = "negation"           -> NegMatchEnd(s, i)
    [] pat = "tag"                -> TagMatchEnd(s, i)
    [] pat = "non_alpha_digit_re" -> IF IsAlpha(s[i]) THEN 0 ELSE i
    [] pat = "multi_spaces_re"    -> SpacesMatchEnd(s, i)

Replacement(pat, s, i, e) ==
  CASE pat = "split"              -> << SubSeq(s, i, e) >>
    [] pat = "contraction"        -> ContractionTable[ContractionAt(s, i)][2]
    [] pat = "repeating_suff_re"  -> << s[i] >>
    [] pat = "email_re"           -> << >>
    [] pat = "mention_hashtag_re" -> << >>
    [] pat = "link_re"            -> << >>
    [] pat = "negation"           -> TagMatch(SubSeq(s, i, e))
    [] pat = "tag"                -> TagReplacement(s, i, e)
    [] pat = "non_alpha_digit_re" -> NonAlphaRepl
    [] pat = "multi_spaces_re"    -> << " " >>

\* ------------------------------------------------------------------------
\* data_cleaning as one call: the stages of the code, in its order.  The
\* shared list is read where the code reads it, so a stage that changed it
\* would change what the later stage sees.
\* ------------------------------------------------------------------------

\* the shared list after one call of data_cleaning
DataCleaningStopWords(hn, ras, sw) ==
  LET sw1 == IF hn THEN StopWordsAfter(TRUE, sw) ELSE sw
  IN  IF ras THEN StopWordsAfter(FALSE, sw1) ELSE sw1

\* if handle_neg: remove_stopwords(text, neg_keep=True), negation_handle
HandleNeg(text, hn, sw) ==
  IF hn THEN negation_handle(remove_stopwords(text, TRUE, sw)) ELSE text

\* if is_lemmatized: lemmatize
IfLemmatized(text, lem) == IF lem THEN lemmatize(text) ELSE text

\* if remove_all_stopword: remove_stopwords(text)
IfRemoveAllStopword(text, ras, sw) ==
  IF ras THEN remove_stopwords(text, FALSE, sw) ELSE text

\* the string one call of data_cleaning returns (text is a str)
DataCleaning(text, hn, ras, lem, sw) ==
  strip(
    IfRemoveAllStopword(
      IfLemmatized(
        remove_spaces(remove_short_words(remove_non_alpha(
          HandleNeg(remove_noise_texts(expand_contractions(lower(text))),
                    hn, sw)))),
        lem),
      ras, IF hn THEN StopWordsAfter(TRUE, sw) ELSE sw))

\* ------------------------------------------------------------------------
\* Inputs
\* ------------------------------------------------------------------------

\* number of pieces an input of data_cleaning is put together from
MaxCleanPieces == 3

\* number of pieces an input of a single string function is put together from
MaxFnPieces == 3

\* number of rows of the data frame
MaxRecords == 2

CleanPieces ==
  { <<" ">>, <<"n","o","t">>, <<"t","h","e">>, <<"o","k">>, <<"x">>,
    <<"9">>, <<"@">>, <<"D","o","n","'","t">>, <<"a","t","e">>,
    <<"o","s">> }

FnPieces ==
  { <<" ">>, <<"n","o","t"," ">>, <<"n","o"," ">>, <<"n","o">>,
    <<"o","k"," ">>, <<"a">>, <<"9">>, <<"@">>, <<"@","@">>, <<"#">>,
    <<"w","w","w",".">>, <<"h","t","t","p",":","/","/">>,
    <<".","c","o","m">>, <<"N">>, <<"A"," ">> }

RECURSIVE PieceStrings(_, _)
\* the strings put together from at most n of the pieces
PieceStrings(pieces, n) ==
  IF n = 0 THEN { << >> }
  ELSE LET shorter == PieceStrings(pieces, n - 1)
       IN  shorter \cup { p \o q : p \in shorter, q \in pieces }

\* the tweet of the notebook's example call of data_cleaning
ExampleTweet ==
  <<
    "J","u","s","t"," ","g","o","t"," ","a","n"," ","e","m","a","i","l"," ",
    "f","r","o","m"," ","p","r","a","n","k","s","t","e","r","@","t","r","o",
    "l","l",".","c","o","m",","," ","I"," ","t","h","i","n","k"," ","i","t",
    "'","s"," ","@","J","o","r","d","a","n","'","s"," ","t","r","o","l","l",
    "."," ","H","e"," ","t","o","l","d"," ","m","e"," ","i","n"," ","t","h",
    "e"," ","m","a","i","l"," ","t","h","a","t"," ","h","e"," ","r","e","a",
    "l","l","y"," ","d","o","n","'","t"," ","l","i","k","e"," ","m","y"," ",
    "d","o","g",","," ","b","u","t"," ","h","e"," ","d","i","d"," ","l","i",
    "k","e"," ","a"," ","c","a","t","."," ","#","I","H","a","t","e","J","o",
    "r","d","a","n"
  >>

\* the output the notebook shows for it
ExampleOutput ==
  <<
    "j","u","s","t"," ","g","o","t"," ","a","n"," ","e","m","a","i","l"," ",
    "f","r","o","m"," ","t","h","i","n","k"," ","i","t"," ","i","s"," ","t",
    "r","o","l","l"," ","h","e"," ","t","o","l","d"," ","m","e"," ","i","n",
    " ","t","h","e"," ","m","a","i","l"," ","t","h","a","t"," ","h","e"," ",
    "r","e","a","l","l","y"," ","d","o"," ","n","o","t"," ","l","i","k","e",
    " ","m","y"," ","d","o","g"," ","b","u","t"," ","h","e"," ","d","i","d",
    " ","l","i","k","e"," ","c","a","t"
  >>

\* the texts of the data frame's rows: a str, or None for a missing text
BatchTexts ==
  { << >>, <<"t","h","e">>, <<"n","o","r"," ","o","k">>,
    <<"n","o","t"," ","o","k">>, None }

\* the label column's values
BatchLabels == { 0, 1 }

\* a cleaned-text cell the apply has not filled yet
Unset == << "<unset>" >>

\* ------------------------------------------------------------------------
\* State
\* ------------------------------------------------------------------------

VARIABLES
  stop_words,           \* the global list, shared by every call
  arg,                  \* the argument of the call under way
  handle_neg, remove_all_stopword, is_lemmatized,   \* data_cleaning's flags
  pc,                   \* the statement data_cleaning is about to run
  txt,                  \* data_cleaning's local variable text
  ran,                  \* the stages run so far, in order
  err,                  \* the exception raised, "none" when there is none
  fn, neg_keep, out, prev, calls,    \* a single string function's call
  df,                   \* the data frame: rows of label, text, cleaned texts
  df_neg, df_normal,    \* the frames without the empty rows
  X_neg, y_neg, X_normal, y_normal,  \* the saved arrays
  cell                  \* the notebook cell position of the batch run

vars ==
  << stop_words, arg, handle_neg, remove_all_stopword, is_lemmatized, pc, txt,
     ran, err, fn, neg_keep, out, prev, calls, df, df_neg, df_normal, X_neg,
     y_neg, X_normal, y_normal, cell >>

callVars == << arg, handle_neg, remove_all_stopword, is_lemmatized >>

fnVars == << fn, neg_keep, out, prev, calls >>

batchVars == << df, df_neg, df_normal, X_neg, y_neg, X_normal, y_normal, cell >>

CleanIdle ==
  /\ handle_neg = FALSE /\ remove_all_stopword = FALSE
  /\ is_lemmatized = FALSE
  /\ pc = "idle" /\ txt = << >> /\ ran = << >>

FnIdle ==
  /\ fn = "none" /\ neg_keep = FALSE /\ out = << >> /\ prev = << >>
  /\ calls = 0

BatchIdle ==
  /\ df = << >> /\ df_neg = << >> /\ df_normal = << >>
  /\ X_neg = << >> /\ y_neg = << >> /\ X_normal = << >> /\ y_normal = << >>
  /\ cell = "idle"

\* ------------------------------------------------------------------------
\* SpecClean: one call of data_cleaning, statement by statement
\* ------------------------------------------------------------------------

InitClean ==
  /\ stop_words = StopWordsLoaded
  /\ arg \in PieceStrings(CleanPieces, MaxCleanPieces)
               \cup { ExampleTweet, None }
  /\ handle_neg \in BOOLEAN
  /\ remove_all_stopword \in BOOLEAN
  /\ is_lemmatized \in BOOLEAN
  /\ pc = "lower"
  /\ txt = arg
  /\ ran = << >>
  /\ err = "none"
  /\ FnIdle
  /\ BatchIdle

\* a stage that rewrites text and moves on
Stage(at, result, next) ==
  /\ pc = at
  /\ txt' = result
  /\ pc' = next
  /\ ran' = Append(ran, at)
  /\ UNCHANGED << callVars, err, fnVars, batchVars >>

\* text = text.lower(); None has no method lower
Lower ==
  /\ pc = "lower"
  /\ IF IsStr(txt)
     THEN /\ txt' = lower(txt)
          /\ pc' = "expand_contractions"
          /\ ran' = Append(ran, "lower")
          /\ err' = err
     ELSE /\ err' = "AttributeError"
          /\ pc' = "raised"
          /\ UNCHANGED << txt, ran >>
  /\ UNCHANGED << stop_words, callVars, fnVars, batchVars >>

ExpandContractions ==
  /\ Stage("expand_contractions", expand_contractions(txt),
           "remove_noise_texts")
  /\ UNCHANGED stop_words

\* mutant of RemoveNoiseTexts: the test of handle_neg left out
RemoveNoiseTextsThenNeg ==
  /\ Stage("remove_noise_texts", remove_noise_texts(txt),
           "remove_stopwords_neg_keep")
  /\ UNCHANGED stop_words

RemoveNoiseTexts ==
  /\ Stage("remove_noise_texts", remove_noise_texts(txt),
           IF handle_neg THEN "remove_stopwords_neg_keep"
           ELSE "remove_non_alpha")
  /\ UNCHANGED stop_words

RemoveStopwordsNegKeep ==
  /\ Stage("remove_stopwords_neg_keep",
           remove_stopwords(txt, TRUE, stop_words), "negation_handle")
  /\ stop_words' = StopWordsAfter(TRUE, stop_words)

NegationHandle ==
  /\ Stage("negation_handle", negation_handle(txt), "remove_non_alpha")
  /\ UNCHANGED stop_words

RemoveNonAlpha ==
  /\ Stage("remove_non_alpha", remove_non_alpha(txt), "remove_short_words")
  /\ UNCHANGED stop_words

RemoveShortWords ==
  /\ Stage("remove_short_words", remove_short_words(txt), "remove_spaces")
  /\ UNCHANGED stop_words

RemoveSpaces ==
  /\ Stage("remove_spaces", remove_spaces(txt),
           IF is_lemmatized THEN "lemmatize"
           ELSE IF remove_all_stopword THEN "remove_stopwords"
           ELSE "return")
  /\ UNCHANGED stop_words

Lemmatize ==
  /\ Stage("lemmatize", lemmatize(txt),
           IF remove_all_stopword THEN "remove_stopwords" ELSE "return")
  /\ UNCHANGED stop_words

RemoveAllStopwords ==
  /\ Stage("remove_stopwords", remove_stopwords(txt, FALSE, stop_words),
           "return")
  /\ stop_words' = StopWordsAfter(FALSE, stop_words)

\* return text.strip()
Return ==
  /\ Stage("return", strip(txt), "done")
  /\ UNCHANGED stop_words

NextClean ==
  \/ Lower
  \/ ExpandContractions
  \/ RemoveNoiseTexts
  \/ RemoveStopwordsNegKeep
  \/ NegationHandle
  \/ RemoveNonAlpha
  \/ RemoveShortWords
  \/ RemoveSpaces
  \/ Lemmatize
  \/ RemoveAllStopwords
  \/ Return

SpecClean == InitClean /\ [][NextClean]_vars

\* ------------------------------------------------------------------------
\* SpecFn: one call of a single string function on a string
\* ------------------------------------------------------------------------

InitFn ==
  /\ stop_words = StopWordsLoaded
  /\ arg \in PieceStrings(FnPieces, MaxFnPieces)
  /\ CleanIdle
  /\ err = "none"
  /\ FnIdle
  /\ BatchIdle

Call(name, result) ==
  /\ fn = "none"
  /\ fn' = name
  /\ out' = result
  /\ prev' = arg
  /\ calls' = 1
  /\ UNCHANGED << callVars, pc, txt, ran, err, batchVars >>

CallRemoveNoiseTexts ==
  /\ Call("remove_noise_texts", remove_noise_texts(arg))
  /\ UNCHANGED << stop_words, neg_keep >>

CallNegationHandle ==
  /\ Call("negation_handle", negation_handle(arg))
  /\ UNCHANGED << stop_words, neg_keep >>

CallRemoveNonAlpha ==
  /\ Call("remove_non_alpha", remove_non_alpha(arg))
  /\ UNCHANGED << stop_words, neg_keep >>

\* step 5 run again on its own output
CallRemoveNonAlphaAgain ==
  /\ fn = "remove_non_alpha"
  /\ calls = 1
  /\ prev' = out
  /\ out' = remove_non_alpha(out)
  /\ calls' = 2
  /\ UNCHANGED << stop_words, callVars, pc, txt, ran, err, fn, neg_keep,
                  batchVars >>

CallRemoveStopwords ==
  \E keep \in BOOLEAN :
    /\ Call("remove_stopwords", remove_stopwords(arg, keep, stop_words))
    /\ neg_keep' = keep
    /\ stop_words' = StopWordsAfter(keep, stop_words)

NextFn ==
  \/ CallRemoveNoiseTexts
  \/ CallNegationHandle
  \/ CallRemoveNonAlpha
  \/ CallRemoveNonAlphaAgain
  \/ CallRemoveStopwords

SpecFn == InitFn /\ [][NextFn]_vars

\* ------------------------------------------------------------------------
\* Spec: the batch cells.  Each apply calls data_cleaning once per row; the
\* calls are taken in any order, which includes the order of the code (row
\* by row, the first column before the second).
\* ------------------------------------------------------------------------

Row(l, t) ==
  [ label |-> l, text |-> t,
    neg_handled_text |-> Unset, normal_cleaned_text |-> Unset ]

RECURSIVE Frames(_)
\* the data frames of at most n rows, as read from the CSV
Frames(n) ==
  IF n = 0 THEN { << >> }
  ELSE LET shorter == Frames(n - 1)
       IN  shorter \cup { Append(f, Row(l, t)) :
                            f \in shorter, l \in BatchLabels, t \in BatchTexts }

Init ==
  /\ stop_words = StopWordsLoaded
  /\ arg = << >>
  /\ CleanIdle
  /\ err = "none"
  /\ FnIdle
  /\ df \in Frames(MaxRecords)
  /\ df_neg = << >> /\ df_normal = << >>
  /\ X_neg = << >> /\ y_neg = << >> /\ X_normal = << >> /\ y_normal = << >>
  /\ cell = "apply"

\* df['neg_handled_text'] = df['text'].apply(lambda row:
\*     data_cleaning(row, handle_neg=True, remove_all_stopword=True)), row i
ApplyNegHandled(i) ==
  /\ cell = "apply"
  /\ df[i].neg_handled_text = Unset
  /\ IF IsStr(df[i].text)
     THEN /\ df' = [ df EXCEPT ![i].neg_handled_text =
                       DataCleaning(df[i].text, TRUE, TRUE, FALSE, stop_words) ]
          /\ stop_words' = DataCleaningStopWords(TRUE, TRUE, stop_words)
          /\ UNCHANGED << cell, err >>
     ELSE /\ err' = "AttributeError"
          /\ cell' = "aborted"
          /\ UNCHANGED << df, stop_words >>
  /\ UNCHANGED << callVars, pc, txt, ran, fnVars, df_neg, df_normal,
                  X_neg, y_neg, X_normal, y_normal >>

\* df['normal_cleaned_text'] = df['text'].apply(data_cleaning), row i
ApplyNormalCleaned(i) ==
  /\ cell = "apply"
  /\ df[i].normal_cleaned_text = Unset
  /\ IF IsStr(df[i].text)
     THEN /\ df' = [ df EXCEPT ![i].normal_cleaned_text =
                       DataCleaning(df[i].text, FALSE, FALSE, FALSE,
                                    stop_words) ]
          /\ stop_words' = DataCleaningStopWords(FALSE, FALSE, stop_words)
          /\ UNCHANGED << cell, err >>
     ELSE /\ err' = "AttributeError"
          /\ cell' = "aborted"
          /\ UNCHANGED << df, stop_words >>
  /\ UNCHANGED << callVars, pc, txt, ran, fnVars, df_neg, df_normal,
                  X_neg, y_neg, X_normal, y_normal >>

\* df['neg_handled_text'] != ''
NegMask(frame) ==
  [ i \in DOMAIN frame |-> frame[i].neg_handled_text # << >> ]

\* mutant of NormalMask: the mask of the other column
NormalMaskFromNeg(frame) == NegMask(frame)

\* df['normal_cleaned_text'] != ''
NormalMask(frame) ==
  [ i \in DOMAIN frame |-> frame[i].normal_cleaned_text # << >> ]

RECURSIVE BoolIndexFrom(_, _, _)
BoolIndexFrom(frame, mask, i) ==
  IF i > Len(frame) THEN << >>
  ELSE (IF mask[i] THEN << frame[i] >> ELSE << >>)
         \o BoolIndexFrom(frame, mask, i + 1)

\* df[mask]: the rows whose mask is True, in the frame's order
BoolIndex(frame, mask) == BoolIndexFrom(frame, mask, 1)

\* frame[[col, 'label']]
TwoColumns(frame, col) ==
  [ i \in DOMAIN frame |-> [ cleaned |-> frame[i][col],
                             label |-> frame[i].label ] ]

\* the two filter statements, once both columns are filled
RemoveEmptyRows ==
  /\ cell = "apply"
  /\ \A i \in DOMAIN df :
       /\ df[i].neg_handled_text # Unset
       /\ df[i].normal_cleaned_text # Unset
  /\ df_neg' = TwoColumns(BoolIndex(df, NegMask(df)), "neg_handled_text")
  /\ df_normal' =
       TwoColumns(BoolIndex(df, NormalMask(df)), "normal_cleaned_text")
  /\ cell' = "filtered"
  /\ UNCHANGED << stop_words, callVars, pc, txt, ran, err, fnVars, df,
                  X_neg, y_neg, X_normal, y_normal >>

\* frame[col].values
Values(frame, col) == [ i \in DOMAIN frame |-> frame[i][col] ]

\* the feature and target vectors, as saved with np.save
SaveArrays ==
  /\ cell = "filtered"
  /\ X_neg' = Values(df_neg, "cleaned")
  /\ y_neg' = Values(df_neg, "label")
  /\ X_normal' = Values(df_normal, "cleaned")
  /\ y_normal' = Values(df_normal, "label")
  /\ cell' = "saved"
  /\ UNCHANGED << stop_words, callVars, pc, txt, ran, err, fnVars, df,
                  df_neg, df_normal >>

Next ==
  \/ \E i \in DOMAIN df : ApplyNegHandled(i)
  \/ \E i \in DOMAIN df : ApplyNormalCleaned(i)
  \/ RemoveEmptyRows
  \/ SaveArrays

Spec == Init /\ [][Next]_vars

\* ------------------------------------------------------------------------
\* Properties of data_cleaning (SpecClean)
\* ------------------------------------------------------------------------

Words(s) == { Split(s)[k] : k \in DOMAIN Split(s) }

HasLetter(s) == \E k \in DOMAIN s : s[k] \in LowerLetters \cup UpperLetters

IsLowerWord(w) == \A k \in DOMAIN w : IsLower(w[k])

\* NEG followed by one or more lowercase letters
IsTaggedWord(w) ==
  /\ Len(w) > Len(NEG)
  /\ SubSeq(w, 1, Len(NEG)) = NEG
  /\ IsLowerWord(SubSeq(w, Len(NEG) + 1, Len(w)))

\* the words carrying the marker right after the negation tagging stage of
\* the call on arg, cut at their first non-letter as step 5 will cut them
MarkedByTagging ==
  LET tagged == negation_handle(
                  remove_stopwords(
                    remove_noise_texts(expand_contractions(lower(arg))),
                    TRUE, StopWordsLoaded))
  IN  { w \in Words(remove_non_alpha(tagged)) : IsTaggedWord(w) }

\* C1: whatever the input string and the flags, the string data_cleaning
\* returns is made of words separated by single spaces, with no leading,
\* trailing or doubled space; every word is all lowercase letters a-z, or is
\* the marker NEG followed by lowercase letters, and then it is a word the
\* negation tagging stage marked (so there is none when handle_neg is off).
C1_OutputAlphabet ==
  (pc = "done" /\ IsStr(arg)) =>
    /\ Join(Split(txt)) = txt
    /\ \A w \in Words(txt) :
         \/ IsLowerWord(w)
         \/ handle_neg /\ IsTaggedWord(w) /\ w \in MarkedByTagging

\* a returned string with a tagged word and a plain word in it
C1_Witness ==
  /\ pc = "done"
  /\ \E w \in Words(txt) : IsTaggedWord(w)
  /\ \E w \in Words(txt) : IsLowerWord(w)
  /\ \E k \in DOMAIN arg : ~IsAlpha(arg[k]) /\ ~IsSpace(arg[k])

AllFlagsOff == ~handle_neg /\ ~remove_all_stopword /\ ~is_lemmatized

\* C3 as stated: with handle_neg=True and remove_all_stopword=True the
\* example tweet is returned as the notebook's example output.
C3_AsStated ==
  (pc = "done" /\ arg = ExampleTweet
     /\ handle_neg /\ remove_all_stopword /\ ~is_lemmatized)
    => txt = ExampleOutput

\* C3, amended: data_cleaning applied to the example tweet with the default
\* flags (handle_neg, remove_all_stopword and is_lemmatized all False)
\* returns exactly the notebook's example output, stopwords retained and no
\* word carrying NEG.
C3_ExampleDefaultFlags ==
  (pc = "done" /\ arg = ExampleTweet /\ AllFlagsOff) => txt = ExampleOutput

\* the example call has returned
C3_Witness ==
  pc = "done" /\ arg = ExampleTweet /\ AllFlagsOff /\ txt = ExampleOutput

\* C4: when remove_all_stopword is True, whatever handle_neg is, no word of
\* the returned string is a member of the stopword list; in particular none
\* is not, no or nor.
C4_NoStopwordInOutput ==
  (pc = "done" /\ IsStr(arg) /\ remove_all_stopword) =>
    \A w \in Words(txt) : w \notin StopWordsLoaded /\ w \notin NegWords

\* a call with remove_all_stopword whose text held, contractions expanded, a
\* negation word and another stopword, and which returned some other word
C4_Witness ==
  /\ pc = "done" /\ IsStr(arg) /\ remove_all_stopword
  /\ Words(expand_contractions(lower(arg))) \cap NegWords # {}
  /\ Words(expand_contractions(lower(arg))) \cap (StopWordsLoaded \ NegWords)
       # {}
  /\ txt # << >>

\* the statements of data_cleaning, in the order of the code
Stages ==
  << "lower", "expand_contractions", "remove_noise_texts",
     "remove_stopwords_neg_keep", "negation_handle", "remove_non_alpha",
     "remove_short_words", "remove_spaces", "lemmatize", "remove_stopwords",
     "return" >>

StageNames == { Stages[k] : k \in DOMAIN Stages }

\* C8: for a string argument data_cleaning raises nothing and comes to its
\* return: it is always at one of its statements or done, no statement runs
\* twice, and what it returns is a string; for the empty string and for a
\* string without any letter (punctuation, digits, whitespace) the returned
\* string is empty.
C8_NeverRaises ==
  IsStr(arg) =>
    /\ err = "none"
    /\ pc \in StageNames \cup { "done" }
    /\ \A j, k \in DOMAIN ran : j # k => ran[j] # ran[k]
    /\ IsStr(txt)
    /\ (pc = "done" /\ ~HasLetter(arg)) => txt = << >>

\* a call on a non-empty string without letters has returned the empty string
C8_Witness ==
  /\ pc = "done" /\ IsStr(arg) /\ arg # << >> /\ ~HasLetter(arg)
  /\ \E k \in DOMAIN arg : ~IsSpace(arg[k])
  /\ txt = << >> /\ err = "none"

\* ------------------------------------------------------------------------
\* Properties of the single string functions (SpecFn)
\* ------------------------------------------------------------------------

HasUpper(s) == \E k \in DOMAIN s : s[k] \in UpperLetters

IsUpperChar(c) == c \in UpperLetters

WithoutUpper(s) ==
  LET Keep(c) == c \notin UpperLetters
  IN  SelectSeq(s, Keep)

\* the marker stands at position q of o
TagAt(o, q) == q >= 1 /\ StartsWith(o, q, NEG)

\* a cue word ends at position k of o, as a whole word of the input: before
\* it the start of the string, a non-word character, or a marker put there
CueEndsAt(o, k) ==
  \E c \in DOMAIN Cues :
    LET a == k - Len(Cues[c]) + 1
    IN  /\ a >= 1
        /\ SubSeq(o, a, k) = Cues[c]
        /\ (a = 1 \/ ~IsWordChar(o[a - 1]) \/ TagAt(o, a - Len(NEG)))

\* position a of o starts a cue word that stands as a whole word and is
\* followed by whitespace and a lowercase word (tagged or not)
CueSiteAt(o, a) ==
  \E c \in DOMAIN Cues :
    LET k == a + Len(Cues[c]) - 1
        w == SpaceEnd(o, k + 1)
        n == IF TagAt(o, w + 1) THEN w + 1 + Len(NEG) ELSE w + 1
    IN  /\ k <= Len(o)
        /\ CueEndsAt(o, k)
        /\ SubSeq(o, a, k) = Cues[c]
        /\ w >= k + 1
        /\ n <= Len(o)
        /\ IsLower(o[n])

\* the word after the cue that starts at a carries the marker
WordTaggedAfter(o, a) ==
  \E c \in DOMAIN Cues :
    /\ StartsWith(o, a, Cues[c])
    /\ SpaceEnd(o, a + Len(Cues[c])) >= a + Len(Cues[c])
    /\ TagAt(o, SpaceEnd(o, a + Len(Cues[c])) + 1)

\* C5: for a lowercase input, negation_handle returns the input with NEG
\* inserted and nothing else changed; every NEG stands right after the
\* whitespace that follows a whole-word cue and right before a lowercase
\* letter; and of every cue followed by whitespace and a lowercase word,
\* either the word after it is tagged or the cue itself was the word an
\* earlier match tagged, never both (leftmost, non-overlapping matches); so
\* without such a cue the output is the input.
C5_NegationTagsNextWord ==
  (fn = "negation_handle" /\ ~HasUpper(arg)) =>
    /\ WithoutUpper(out) = arg
    /\ \A q \in DOMAIN out :
         IsUpperChar(out[q]) =>
           \E t \in { q, q - 1, q - 2 } : TagAt(out, t)
    /\ \A q \in DOMAIN out :
         TagAt(out, q) =>
           /\ q > 1
           /\ IsSpace(out[q - 1])
           /\ CueEndsAt(out, LastNonSpace(out, q - 1))
           /\ q + Len(NEG) <= Len(out)
           /\ IsLower(out[q + Len(NEG)])
    /\ \A a \in DOMAIN out :
         CueSiteAt(out, a) =>
           (WordTaggedAfter(out, a) # TagAt(out, a - Len(NEG)))
    /\ (\A a \in DOMAIN arg : ~CueSiteAt(arg, a)) => out = arg

\* a cue that was itself the word an earlier match tagged, so that the word
\* after it stays untagged
C5_Witness ==
  /\ fn = "negation_handle" /\ ~HasUpper(arg)
  /\ \E a \in DOMAIN out :
       CueSiteAt(out, a) /\ TagAt(out, a - Len(NEG))
  /\ Len(out) = Len(arg) + Len(NEG)

\* a token that starts with www., http:// or https:// and goes on
UrlPrefixed(t) ==
  \E p \in { << "w","w","w","." >>, << "h","t","t","p",":","/","/" >>,
             << "h","t","t","p","s",":","/","/" >> } :
    StartsWith(t, 1, p) /\ Len(t) > Len(p)

WithoutUrlTokens(s) ==
  LET Keep(t) == ~UrlPrefixed(t)
  IN  Join(SelectSeq(Split(s), Keep))

\* C6 as stated: every whitespace-delimited token of the input that begins
\* with www., http:// or https:// is deleted entirely by remove_noise_texts,
\* no fragment of it reaching the later stages: the words of the output are
\* the words left of the input without those tokens.
C6_UrlTokensRemoved ==
  fn = "remove_noise_texts" =>
    Split(out) = Split(remove_noise_texts(WithoutUrlTokens(arg)))

\* non-space characters on both sides of an '@'
IsEmailLike(t) == \E k \in 2..(Len(t) - 1) : t[k] = "@"

WithoutEmailTokens(s) ==
  LET Keep(t) == ~IsEmailLike(t)
  IN  Join(SelectSeq(Split(s), Keep))

\* the token cut at its first '@' or '#' that a non-space character follows
CutAtMention(t) ==
  LET at == { k \in 1..(Len(t) - 1) : t[k] \in { "@", "#" } }
  IN  IF at = {} THEN t
      ELSE SubSeq(t, 1, (CHOOSE k \in at : \A j \in at : k <= j) - 1)

WithoutMentions(s) ==
  LET words == Split(s)
  IN  Join([ k \in DOMAIN words |-> CutAtMention(words[k]) ])

NoMentionLeft(o) ==
  \A k \in DOMAIN o :
    o[k] \in { "@", "#" } => (k = Len(o) \/ IsSpace(o[k + 1]))

\* C7 as stated: the output of remove_noise_texts has no '@' or '#' with a
\* non-space character right after it, and every token of the input with
\* non-space characters on both sides of an '@' is removed whole.
C7_AsStated ==
  fn = "remove_noise_texts" =>
    /\ NoMentionLeft(out)
    /\ Split(out) = Split(remove_noise_texts(WithoutEmailTokens(arg)))

\* C7, amended: the output of remove_noise_texts has no '@' or '#' with a
\* non-space character right after it; with the runs of three or more equal
\* characters collapsed first, as the function does, every token that then
\* has non-space characters on both sides of an '@' is removed whole, and
\* every other token is cut from its first '@' or '#' that a non-space
\* character follows to its end.
C7_NoMentionOrEmailLeft ==
  fn = "remove_noise_texts" =>
    LET collapsed == ReSub("repeating_suff_re", arg)
    IN  /\ NoMentionLeft(out)
        /\ Split(out)
             = Split(remove_noise_texts(WithoutEmailTokens(collapsed)))
        /\ Split(out)
             = Split(remove_noise_texts(
                       WithoutMentions(WithoutEmailTokens(collapsed))))

\* an input with a word and an email-like token, of which the word is left
C7_Witness ==
  /\ fn = "remove_noise_texts"
  /\ \E t \in Words(arg) : IsEmailLike(t)
  /\ \E t \in Words(arg) : t \in Words(out)
  /\ \A k \in DOMAIN out : out[k] \notin { "@", "#" }

\* C10: remove_non_alpha returns a string of the length of its input, equal
\* to it at every letter a-z, A-Z and with one space at every other
\* position; run again on its own output it returns that output unchanged.
C10_RemoveNonAlphaIdempotent ==
  fn = "remove_non_alpha" =>
    /\ calls = 1 =>
         /\ Len(out) = Len(arg)
         /\ \A k \in DOMAIN out :
              out[k] = IF arg[k] \in LowerLetters \cup UpperLetters
                       THEN arg[k] ELSE " "
    /\ calls = 2 => out = prev /\ Len(out) = Len(arg)

\* the second run, on an input with a letter of each case and other characters
C10_Witness ==
  /\ fn = "remove_non_alpha" /\ calls = 2
  /\ out = prev
  /\ HasUpper(arg)
  /\ \E k \in DOMAIN arg : arg[k] \in LowerLetters
  /\ \E k \in DOMAIN arg : arg[k] \in Digits
  /\ out # arg

\* the rows of the frame whose cell of the column is not the empty string
KeptRows(col) == { i \in DOMAIN df : df[i][col] # << >> }

\* the position, among the rows kept, of the kept row i
Rank(i, kept) == Cardinality({ j \in kept : j <= i })

Aligned(X, y, col) ==
  /\ Len(X) = Len(y)
  /\ Len(X) = Cardinality(KeptRows(col))
  /\ \A i \in KeptRows(col) :
       /\ X[Rank(i, KeptRows(col))] = df[i][col]
       /\ y[Rank(i, KeptRows(col))] = df[i].label

\* C2: once the arrays are saved, the feature and the target array of each
\* variant have one length, hold exactly the rows whose cleaned text of that
\* variant is not empty, in the frame's order, and the label at an index is
\* the label of the row whose cleaned text is at that index.
C2_ArraysAligned ==
  cell = "saved" =>
    /\ Aligned(X_neg, y_neg, "neg_handled_text")
    /\ Aligned(X_normal, y_normal, "normal_cleaned_text")

\* saved arrays where a row empty in one variant only was dropped ahead of a
\* row of the other label, which is kept at the first index
C2_Witness ==
  /\ cell = "saved"
  /\ \E i, j \in DOMAIN df :
       /\ i < j
       /\ df[i].neg_handled_text = << >>
       /\ df[i].normal_cleaned_text # << >>
       /\ df[j].neg_handled_text # << >>
       /\ df[i].label # df[j].label
       /\ Rank(j, KeptRows("neg_handled_text")) = 1
       /\ y_neg[1] = df[j].label
       /\ Len(X_neg) < Len(X_normal)

\* the cleaned text of a row cleaned alone, with the list as loaded
CleanedAlone(t, hn, ras) == DataCleaning(t, hn, ras, FALSE, StopWordsLoaded)

NonEmptyCleaned(r) == r.cleaned # << >>

\* the rows a variant saves, computed from the texts and the flags only
RowsAlone(hn, ras) ==
  SelectSeq([ i \in DOMAIN df |->
                [ cleaned |-> CleanedAlone(df[i].text, hn, ras),
                  label |-> df[i].label ] ],
            NonEmptyCleaned)

\* C9: in whatever order the calls of the two applies are taken, each filled
\* cell holds the string that cleaning the row's text alone returns, and the
\* saved arrays are those computed from the texts and the flags only.
C9_ScheduleIndependent ==
  /\ \A i \in DOMAIN df :
       /\ df[i].neg_handled_text # Unset =>
            df[i].neg_handled_text = CleanedAlone(df[i].text, TRUE, TRUE)
       /\ df[i].normal_cleaned_text # Unset =>
            df[i].normal_cleaned_text = CleanedAlone(df[i].text, FALSE, FALSE)
  /\ cell = "saved" =>
       /\ X_neg = Values(RowsAlone(TRUE, TRUE), "cleaned")
       /\ y_neg = Values(RowsAlone(TRUE, TRUE), "label")
       /\ X_normal = Values(RowsAlone(FALSE, FALSE), "cleaned")
       /\ y_normal = Values(RowsAlone(FALSE, FALSE), "label")

\* calls taken out of the order of the code: a later row cleaned for the
\* second column while an earlier row is not yet cleaned for the first
C9_Witness ==
  /\ cell = "apply"
  /\ \E i, j \in DOMAIN df :
       /\ i < j
       /\ df[i].neg_handled_text = Unset
       /\ df[j].normal_cleaned_text \notin { Unset, << >> }
       /\ df[j].neg_handled_text \notin { Unset, << >> }
       /\ df[j].neg_handled_text # df[j].normal_cleaned_text

\* ------------------------------------------------------------------------
\* Stage order, word lengths and the shared list
\* ------------------------------------------------------------------------

\* the order of the stages for the flags of the call
FixedOrder ==
  << "lower", "expand_contractions", "remove_noise_texts" >>
    \o (IF handle_neg
        THEN << "remove_stopwords_neg_keep", "negation_handle" >>
        ELSE << >>)
    \o << "remove_non_alpha", "remove_short_words", "remove_spaces" >>
    \o (IF is_lemmatized THEN << "lemmatize" >> ELSE << >>)
    \o (IF remove_all_stopword THEN << "remove_stopwords" >> ELSE << >>)
    \o << "return" >>

\* C11: for every flag combination the stages data_cleaning has run are the
\* first stages of the one fixed order (lowercase, contractions, noise, with
\* handle_neg the negation-keeping stopword removal and then the tagging,
\* non-alphabetic stripping, short-word drop, whitespace collapse, with
\* is_lemmatized the lemmatizer, with remove_all_stopword the full stopword
\* removal, trim), the stage about to run is the next of that order, and a
\* finished call has run all of it; a stage whose flag is off never runs.
C11_FixedStageOrder ==
  (IsStr(arg) /\ pc # "idle") =>
    /\ Len(ran) <= Len(FixedOrder)
    /\ \A k \in DOMAIN ran : ran[k] = FixedOrder[k]
    /\ pc # "done" =>
         /\ Len(ran) < Len(FixedOrder)
         /\ pc = FixedOrder[Len(ran) + 1]
    /\ pc = "done" => ran = FixedOrder

\* a finished call with every flag on, whose tagging marked a word
C11_Witness ==
  /\ pc = "done" /\ IsStr(arg)
  /\ handle_neg /\ is_lemmatized /\ remove_all_stopword
  /\ Len(ran) = 11
  /\ \E w \in Words(txt) : IsTaggedWord(w)

\* a string of lowercase letters and spaces only
IsPlainLower(s) == \A k \in DOMAIN s : s[k] \in LowerLetters \cup { " " }

CueSet == { Cues[c] : c \in DOMAIN Cues }

RECURSIVE TagTokens(_, _)
\* the tokens from the i-th on, tagged left to right: a cue with a token
\* after it takes that token as its tagged word and both are passed over
TagTokens(toks, i) ==
  IF i > Len(toks) THEN << >>
  ELSE IF toks[i] \in CueSet /\ i < Len(toks)
  THEN << toks[i], NEG \o toks[i + 1] >> \o TagTokens(toks, i + 2)
  ELSE << toks[i] >> \o TagTokens(toks, i + 1)

\* C12: on a string of lowercase words, negation_handle tags, token by token
\* from the left, the token after each cue that no earlier match consumed:
\* of two adjacent cues followed by a word (cue1 cue2 w) the first match
\* takes cue2 as its tagged word, giving cue1 NEGcue2 w with w untagged,
\* while a cue not consumed tags the word after it.
C12_AdjacentCuesFirstWins ==
  (fn = "negation_handle" /\ IsPlainLower(arg)) =>
    /\ Split(out) = TagTokens(Split(arg), 1)
    /\ \A i \in DOMAIN Split(arg) :
         (/\ i + 2 <= Len(Split(arg))
          /\ Split(arg)[i] \in CueSet
          /\ Split(arg)[i + 1] \in CueSet
          /\ Split(out)[i] = Split(arg)[i])
           => /\ Split(out)[i + 1] = NEG \o Split(arg)[i + 1]
              /\ Split(out)[i + 2] = Split(arg)[i + 2]

\* cue1 cue2 w, returned as cue1 NEGcue2 w
C12_Witness ==
  /\ fn = "negation_handle"
  /\ IsPlainLower(arg)
  /\ Len(Split(arg)) = 3
  /\ Split(arg)[1] \in CueSet /\ Split(arg)[2] \in CueSet
  /\ Split(arg)[3] \notin CueSet
  /\ Split(out) = << Split(arg)[1], NEG \o Split(arg)[2], Split(arg)[3] >>

\* not, no, nor
NegationMarkers == { <<"n","o","t">>, <<"n","o">>, <<"n","o","r">> }

\* the token is one remove_stopwords is to remove, for the neg_keep it got
IsRemovedToken(w) ==
  w \in StopWordsLoaded /\ (neg_keep => w \notin NegationMarkers)

IsKeptToken(w) == ~IsRemovedToken(w)

BaseForms == { LemmaTable[r][2] : r \in DOMAIN LemmaTable }

C15_InvalidRecordSignalled ==
  /\ err \in { "none", "InvalidRecord" }
  /\ cell = "aborted" => err = "InvalidRecord"
  /\ \A i \in DOMAIN df :
       (IsStr(df[i].text) /\ df[i].normal_cleaned_text # Unset) =>
         df[i].normal_cleaned_text = CleanedAlone(df[i].text, FALSE, FALSE)

\* C16: after any sequence of calls of data_cleaning, with the flags of
\* either batch variant and in any order, stop_words holds exactly the
\* members it was loaded with, not, no and nor among them.
C16_StopWordsUnchanged ==
  /\ stop_words = StopWordsLoaded
  /\ NegationMarkers \subseteq stop_words

\* several calls with handle_neg and remove_all_stopword have returned, one
\* of them on a text with a negation marker, and the list is as loaded
C16_Witness ==
  /\ stop_words = StopWordsLoaded
  /\ \E i, j \in DOMAIN df :
       /\ i # j
       /\ df[i].neg_handled_text \notin { Unset, << >> }
       /\ df[j].neg_handled_text # Unset
       /\ df[j].normal_cleaned_text # Unset
       /\ \E w \in Words(df[i].text) : w \in NegationMarkers

====
